---- MODULE Spec2Model ----
(***************************************************************************)
(* A model of wireframe.py: the Wireframe geometry buffer (nodes, edges,   *)
(* faces), its affine transforms, and the WireframeGroup that broadcasts   *)
(* transforms to its members.                                              *)
(*                                                                         *)
(* Numbers.  Coordinates are exact numbers stored as integers counted in a *)
(* fixed length unit u; every operation of the program is homogeneous in   *)
(* u, so a scenario with half-integer coordinates is read with u = 1/2     *)
(* (the stored value 3 is then the coordinate 1.5).  Scale factors,        *)
(* cosines, sines and the homogeneous component are plain integers.        *)
(* numpy's float64 arithmetic is exact on such values within the model's   *)
(* bounds.  The only operation that can leave the grid is the halving in   *)
(* findCentre; the specifications enable a call that uses it only where    *)
(* the half is on the grid.                                                *)
(* Angles are quarter turns: rotate*(.., k) stands for radians = k*pi/2,   *)
(* with cos and sin taken as their exact values 0, 1, -1.                  *)
(***************************************************************************)
EXTENDS Integers, Sequences, FiniteSets, TLC

VARIABLES
    nodes,       \* Wireframe.nodes of each wireframe object: a sequence of rows <<x, y, z, w>>
    edges,       \* Wireframe.edges of each wireframe object: a sequence of pairs <<i, j>>
    faces,       \* Wireframe.faces of each wireframe object: a sequence of index loops
    wireframes,  \* WireframeGroup.wireframes: the dict name -> wireframe object
    call,        \* observer: the call that produced the current state
    steps,       \* observer: the number of calls made so far
    history      \* observer: the group translate calls made so far

vars == <<nodes, edges, faces, wireframes, call, steps, history>>

\* The wireframe objects that exist, and the names a group can register them under.
Obj == {"w1", "w2"}
Names == {"a", "b"}

---------------------------------------------------------------------------
(* Sequence helpers *)

Range(s) == {s[i] : i \in 1..Len(s)}

SetMin(S) == CHOOSE m \in S : \A x \in S : m <= x

SetMax(S) == CHOOSE m \in S : \A x \in S : x <= m

---------------------------------------------------------------------------
(* Geometry buffer: Wireframe.__init__, addNodes, addEdges, addFaces *)

\* np.zeros((0,4)), [], []
EmptyNodes == <<>>

\* addNodes: hstack a column of ones, then vstack below the existing rows.
OnesAdded(node_array) ==
    [i \in 1..Len(node_array) |->
        <<node_array[i][1], node_array[i][2], node_array[i][3], 1>>]

addNodesOp(ns, node_array) == ns \o OnesAdded(node_array)

\* `edge not in self.edges`: Python tuple equality, component by component.
EdgeNotIn(edge, es) == edge \notin Range(es)

\* self.edges += [edge for edge in edge_list if edge not in self.edges]
\* The comprehension is evaluated against self.edges as it is before the +=.
addEdgesOp(es, edge_list) ==
    es \o SelectSeq(edge_list, LAMBDA edge : EdgeNotIn(edge, es))

\* all((node < len(self.nodes) for node in node_list))
AllBelowBad(node_list, n) == \E k \in 1..Len(node_list) : node_list[k] < n

AllBelow(node_list, n) == \A k \in 1..Len(node_list) : node_list[k] < n

\* [(node_list[n-1], node_list[n]) for n in range(num_nodes)]: Python's
\* node_list[-1] is the last element, so the first pair wraps around.
LoopEdges(node_list) ==
    [k \in 1..Len(node_list) |->
        <<node_list[IF k = 1 THEN Len(node_list) ELSE k - 1], node_list[k]>>]

\* addFaces: the for loop over face_list, on the pair (edges, faces).
RECURSIVE addFacesOp(_, _, _, _)
addFacesOp(n, es, fs, face_list) ==
    IF face_list = <<>> THEN [edges |-> es, faces |-> fs]
    ELSE LET node_list == Head(face_list)
         IN  IF AllBelow(node_list, n)
             THEN addFacesOp(n, addEdgesOp(es, LoopEdges(node_list)),
                             Append(fs, node_list), Tail(face_list))
             ELSE addFacesOp(n, es, fs, Tail(face_list))

addNodes(w, node_array) ==
    /\ nodes' = [nodes EXCEPT ![w] = addNodesOp(@, node_array)]
    /\ UNCHANGED <<edges, faces, wireframes>>

addEdges(w, edge_list) ==
    /\ edges' = [edges EXCEPT ![w] = addEdgesOp(@, edge_list)]
    /\ UNCHANGED <<nodes, faces, wireframes>>

addFaces(w, face_list) ==
    LET r == addFacesOp(Len(nodes[w]), edges[w], faces[w], face_list)
    IN  /\ edges' = [edges EXCEPT ![w] = r.edges]
        /\ faces' = [faces EXCEPT ![w] = r.faces]
        /\ UNCHANGED <<nodes, wireframes>>

---------------------------------------------------------------------------
(* Affine transform engine: Wireframe.transform .. Wireframe.findCentre *)

\* One row of np.dot(self.nodes, M): row . M
Entry(row, M, c) ==
    row[1] * M[1][c] + row[2] * M[2][c] + row[3] * M[3][c] + row[4] * M[4][c]

RowDot(row, M) == <<Entry(row, M, 1), Entry(row, M, 2), Entry(row, M, 3), Entry(row, M, 4)>>

\* np.dot(self.nodes, transformation_matrix): every row, in order.
dotBad(ns, M) == [i \in 1..Len(ns) |-> RowDot(ns[Len(ns) + 1 - i], M)]

dot(ns, M) == [i \in 1..Len(ns) |-> RowDot(ns[i], M)]

\* np.cos, np.sin at k quarter turns
Cos(k) == <<1, 0, -1, 0>>[(k % 4) + 1]

Sin(k) == <<0, 1, 0, -1>>[(k % 4) + 1]

translateMatrixBad(dx, dy, dz) ==
    << <<1, 0, 0, 0>>, <<0, 1, 0, 0>>, <<0, 0, 1, 0>>, <<dx, dy, dz, 0>> >>

translateMatrix(dx, dy, dz) ==
    << <<1, 0, 0, 0>>, <<0, 1, 0, 0>>, <<0, 0, 1, 0>>, <<dx, dy, dz, 1>> >>

scaleMatrixBad(s, cx, cy, cz) ==
    << <<s, 0, 0, 0>>, <<0, s, 0, 0>>, <<0, 0, s, 0>>,
       <<cx * (s - 1), cy * (s - 1), cz * (s - 1), 1>> >>

scaleMatrix(s, cx, cy, cz) ==
    << <<s, 0, 0, 0>>, <<0, s, 0, 0>>, <<0, 0, s, 0>>,
       <<cx * (1 - s), cy * (1 - s), cz * (1 - s), 1>> >>

rotateXMatrix(y, z, radians) ==
    LET c == Cos(radians)
        s == Sin(radians)
    IN  << <<1, 0, 0, 0>>, <<0, c, -s, 0>>, <<0, s, c, 0>>,
           <<0, -y * c - z * s + y, y * s - z * c + z, 1>> >>

rotateYMatrix(x, z, radians) ==
    LET c == Cos(radians)
        s == Sin(radians)
    IN  << <<c, 0, s, 0>>, <<0, 1, 0, 0>>, <<-s, 0, c, 0>>,
           <<z * s - x * c + x, 0, -z * c - x * s + z, 1>> >>

rotateZMatrix(x, y, radians) ==
    LET c == Cos(radians)
        s == Sin(radians)
    IN  << <<c, -s, 0, 0>>, <<s, c, 0, 0>>, <<0, 0, 1, 0>>,
           <<-x * c - y * s + x, x * s - c * y + y, 0, 1>> >>

\* self.nodes = np.dot(self.nodes, M); nothing else is assigned.
transform(w, transformation_matrix) ==
    /\ nodes' = [nodes EXCEPT ![w] = dot(@, transformation_matrix)]
    /\ UNCHANGED <<edges, faces, wireframes>>

translate(w, dx, dy, dz) ==
    /\ nodes' = [nodes EXCEPT ![w] = dot(@, translateMatrix(dx, dy, dz))]
    /\ UNCHANGED <<edges, faces, wireframes>>

scale(w, s, cx, cy, cz) ==
    /\ nodes' = [nodes EXCEPT ![w] = dot(@, scaleMatrix(s, cx, cy, cz))]
    /\ UNCHANGED <<edges, faces, wireframes>>

rotateX(w, y, z, radians) ==
    /\ nodes' = [nodes EXCEPT ![w] = dot(@, rotateXMatrix(y, z, radians))]
    /\ UNCHANGED <<edges, faces, wireframes>>

rotateY(w, x, z, radians) ==
    /\ nodes' = [nodes EXCEPT ![w] = dot(@, rotateYMatrix(x, z, radians))]
    /\ UNCHANGED <<edges, faces, wireframes>>

rotateZ(w, x, y, radians) ==
    /\ nodes' = [nodes EXCEPT ![w] = dot(@, rotateZMatrix(x, y, radians))]
    /\ UNCHANGED <<edges, faces, wireframes>>

\* self.nodes[:,:-1].min(axis=0) and .max(axis=0): per axis, the homogeneous
\* column left out.  Defined for a non-empty node array only (numpy raises
\* ValueError on an empty one).
MinValues(ns) == [a \in 1..3 |-> SetMin({ns[i][a] : i \in 1..Len(ns)})]

MaxValues(ns) == [a \in 1..3 |-> SetMax({ns[i][a] : i \in 1..Len(ns)})]

\* 0.5 * v, exact when v is even
Half(v) == v \div 2

\* Wireframe.findCentre: 0.5*(min_values + max_values)
findCentre(ns) == [a \in 1..3 |-> Half(MinValues(ns)[a] + MaxValues(ns)[a])]

---------------------------------------------------------------------------
(* WireframeGroup *)

\* centre = None
None == <<>>

\* self.wireframes[name] = wireframe
addWireframe(name, w) ==
    /\ wireframes' = [n \in (DOMAIN wireframes) \cup {name} |->
                        IF n = name THEN w ELSE wireframes[n]]
    /\ UNCHANGED <<nodes, edges, faces>>

\* for wireframe in self.wireframes.values(): wireframe.<op>(..), where <op>
\* multiplies that wireframe's nodes by the matrix M built from the arguments.
\* A wireframe registered under two names is visited twice.
forEachWireframeBad(names, ns, M) ==
    [w \in Obj |-> IF \E n \in names : wireframes[n] = w THEN dot(ns[w], M) ELSE ns[w]]

RECURSIVE forEachWireframe(_, _, _)
forEachWireframe(names, ns, M) ==
    IF names = {} THEN ns
    ELSE LET name == CHOOSE n \in names : TRUE
         IN  forEachWireframe(names \ {name},
                              [ns EXCEPT ![wireframes[name]] = dot(@, M)], M)

\* WireframeGroup.findCentre: the minimum of the members' minima, the maximum
\* of the members' maxima, then the midpoint.
groupFindCentreBad ==
    LET mins == {MinValues(nodes[wireframes[n]]) : n \in DOMAIN wireframes}
        maxs == {MaxValues(nodes[wireframes[n]]) : n \in DOMAIN wireframes}
    IN  [a \in 1..3 |-> Half(SetMax({m[a] : m \in mins}) + SetMax({m[a] : m \in maxs}))]

groupFindCentre ==
    LET mins == {MinValues(nodes[wireframes[n]]) : n \in DOMAIN wireframes}
        maxs == {MaxValues(nodes[wireframes[n]]) : n \in DOMAIN wireframes}
    IN  [a \in 1..3 |-> Half(SetMin({m[a] : m \in mins}) + SetMax({m[a] : m \in maxs}))]

\* findCentre raises (and the call changes nothing) for an empty group or a
\* member without nodes.
CentreDefined ==
    /\ DOMAIN wireframes # {}
    /\ \A n \in DOMAIN wireframes : Len(nodes[wireframes[n]]) > 0

\* `if not centre: (cx, cy, cz) = self.findCentre() else: (cy, cz) = centre`
\* and the like: the two coordinates handed to the members' rotate call.
pivotXBad(centre) ==
    IF centre = None THEN <<groupFindCentre[1], groupFindCentre[2]>> ELSE centre

pivotX(centre) ==
    IF centre = None THEN <<groupFindCentre[2], groupFindCentre[3]>> ELSE centre

pivotY(centre) ==
    IF centre = None THEN <<groupFindCentre[1], groupFindCentre[3]>> ELSE centre

pivotZ(centre) ==
    IF centre = None THEN <<groupFindCentre[1], groupFindCentre[2]>> ELSE centre

groupTranslate(dx, dy, dz) ==
    /\ nodes' = forEachWireframe(DOMAIN wireframes, nodes, translateMatrix(dx, dy, dz))
    /\ UNCHANGED <<edges, faces, wireframes>>

groupScale(s, x, y, z) ==
    /\ nodes' = forEachWireframe(DOMAIN wireframes, nodes, scaleMatrix(s, x, y, z))
    /\ UNCHANGED <<edges, faces, wireframes>>

groupRotateX(radians, centre) ==
    /\ centre = None => CentreDefined
    /\ nodes' = forEachWireframe(DOMAIN wireframes, nodes,
                                 rotateXMatrix(pivotX(centre)[1], pivotX(centre)[2], radians))
    /\ UNCHANGED <<edges, faces, wireframes>>

groupRotateY(radians, centre) ==
    /\ centre = None => CentreDefined
    /\ nodes' = forEachWireframe(DOMAIN wireframes, nodes,
                                 rotateYMatrix(pivotY(centre)[1], pivotY(centre)[2], radians))
    /\ UNCHANGED <<edges, faces, wireframes>>

groupRotateZ(radians, centre) ==
    /\ centre = None => CentreDefined
    /\ nodes' = forEachWireframe(DOMAIN wireframes, nodes,
                                 rotateZMatrix(pivotZ(centre)[1], pivotZ(centre)[2], radians))
    /\ UNCHANGED <<edges, faces, wireframes>>

---------------------------------------------------------------------------
(* Observers *)

Record(op, w, arg) ==
    /\ call' = [op |-> op, obj |-> w, arg |-> arg]
    /\ steps' = steps + 1

NoCall == [op |-> "init", obj |-> "w1", arg |-> <<>>]

---------------------------------------------------------------------------
(* SpecBuffer: one empty Wireframe, grown by addNodes, addEdges, addFaces *)

MaxNodes == 3
MaxCalls == 2

Indices == {-4, 0, 1, 2}

\* Candidate loops: triangles through node 0, in both directions; index 2 is
\* beyond the nodes until the third is added, and -4 lies below every node
\* count the buffer reaches (Python's nodes[-4] would raise IndexError).
Loops == {<<0, a, b>> : a \in Indices \ {0}, b \in Indices \ {-4, 0}} \ {<<0, a, a>> : a \in Indices}

FaceLists == {<<l>> : l \in Loops} \cup {<<l, m>> : l \in Loops, m \in Loops}

Pairs == {<<0, 1>>, <<1, 0>>, <<1, 2>>}

EdgeLists == {<<p>> : p \in Pairs} \cup {<<p, q>> : p \in Pairs, q \in Pairs}

NodeArrays == {<< <<0, 0, 0>> >>, << <<2, 0, 0>>, <<2, 2, 0>> >>}

BufferInit ==
    /\ nodes = [w \in Obj |-> EmptyNodes]
    /\ edges = [w \in Obj |-> <<>>]
    /\ faces = [w \in Obj |-> <<>>]
    /\ wireframes = <<>>
    /\ call = NoCall
    /\ steps = 0
    /\ history = <<>>

BufferAddNodes ==
    \E node_array \in NodeArrays :
        /\ steps < MaxCalls
        /\ Len(nodes["w1"]) + Len(node_array) <= MaxNodes
        /\ addNodes("w1", node_array)
        /\ call' = [op |-> "addNodes", obj |-> "w1", arg |-> node_array]
        /\ UNCHANGED <<steps, history>>

BufferAddEdges ==
    \E edge_list \in EdgeLists :
        /\ steps < MaxCalls
        /\ addEdges("w1", edge_list)
        /\ Record("addEdges", "w1", edge_list)
        /\ UNCHANGED history

BufferAddFaces ==
    \E face_list \in FaceLists :
        /\ steps < MaxCalls
        /\ addFaces("w1", face_list)
        /\ Record("addFaces", "w1", face_list)
        /\ UNCHANGED history

BufferNext == BufferAddNodes \/ BufferAddEdges \/ BufferAddFaces

SpecBuffer == BufferInit /\ [][BufferNext]_vars

---------------------------------------------------------------------------
(* SpecTransform: one populated Wireframe under its own transform calls *)

MaxSteps == 3
MaxCoord == 8

Vectors == {<<2, 0, 0>>, <<0, -2, 0>>, <<0, 0, 1>>}
Factors == {-1, 2}
Pivots == {<<0, 0, 0>>, <<2, 2, 2>>}
Angles == {1, 2, 3}
PivotPairs == {<<2, 4>>}
Reflect == << <<1, 0, 0, 0>>, <<0, -1, 0, 0>>, <<0, 0, 1, 0>>, <<0, 0, 0, 1>> >>
Shear == << <<1, 1, 0, 0>>, <<0, 1, 0, 0>>, <<0, 0, 1, 0>>, <<0, 0, -2, 1>> >>
Matrices == {Reflect, Shear}
ExtraNodes == {<< <<0, 2, 0>> >>}

\* w1 as a generator builds it: addNodes, then addFaces (which derives the edges).
TriangleNodes == addNodesOp(EmptyNodes, << <<0, 0, 0>>, <<2, 0, 0>>, <<2, 2, 2>> >>)
TriangleFaces == addFacesOp(Len(TriangleNodes), <<>>, <<>>, << <<0, 1, 2>> >>)

InBox == \A w \in Obj : \A i \in 1..Len(nodes[w]) : \A a \in 1..3 :
            -MaxCoord <= nodes[w][i][a] /\ nodes[w][i][a] <= MaxCoord

TransformInit ==
    /\ nodes = [w \in Obj |-> IF w = "w1" THEN TriangleNodes ELSE EmptyNodes]
    /\ edges = [w \in Obj |-> IF w = "w1" THEN TriangleFaces.edges ELSE <<>>]
    /\ faces = [w \in Obj |-> IF w = "w1" THEN TriangleFaces.faces ELSE <<>>]
    /\ wireframes = <<>>
    /\ call = NoCall
    /\ steps = 0
    /\ history = <<>>

CanStep == steps < MaxSteps

Step(op, w, arg) ==
    /\ InBox'
    /\ Record(op, w, arg)
    /\ UNCHANGED history

TAddNodes ==
    \E node_array \in ExtraNodes :
        /\ CanStep
        /\ Len(nodes["w1"]) = Len(TriangleNodes)
        /\ addNodes("w1", node_array)
        /\ call' = [op |-> "addNodes", obj |-> "w1", arg |-> node_array]
        /\ UNCHANGED <<steps, history>>

TTransform ==
    \E M \in Matrices :
        CanStep /\ transform("w1", M) /\ Step("transform", "w1", M)

TTranslate ==
    \E d \in Vectors :
        CanStep /\ translate("w1", d[1], d[2], d[3]) /\ Step("translate", "w1", d)

TScale ==
    \E s \in Factors, c \in Pivots :
        CanStep /\ scale("w1", s, c[1], c[2], c[3]) /\ Step("scale", "w1", <<s, c>>)

TRotateX ==
    \E p \in PivotPairs, k \in Angles :
        CanStep /\ rotateX("w1", p[1], p[2], k) /\ Step("rotateX", "w1", <<p, k>>)

TRotateY ==
    \E p \in PivotPairs, k \in Angles :
        CanStep /\ rotateY("w1", p[1], p[2], k) /\ Step("rotateY", "w1", <<p, k>>)

TRotateZ ==
    \E p \in PivotPairs, k \in Angles :
        CanStep /\ rotateZ("w1", p[1], p[2], k) /\ Step("rotateZ", "w1", <<p, k>>)

TransformNext ==
    \/ TAddNodes \/ TTransform \/ TTranslate \/ TScale
    \/ TRotateX \/ TRotateY \/ TRotateZ

SpecTransform == TransformInit /\ [][TransformNext]_vars

---------------------------------------------------------------------------
(* SpecGroup: two populated wireframes, transformed singly and through a *)
(* WireframeGroup                                                        *)

MaxGroupSteps == 2

GVectors == {<<2, 0, 0>>, <<0, -2, 1>>}
GScales == {<<2, <<2, 2, 2>> >>, <<-1, <<0, 0, 0>> >>}
GPivot == <<2, 4>>
\* (radians, centre) of the group's rotate calls, in quarter turns
GRotations == {<<1, None>>, <<2, None>>, <<1, GPivot>>}

\* w2: addNodes, then addEdges.
SegmentNodes == addNodesOp(EmptyNodes, << <<4, 4, 4>>, <<6, 6, 6>> >>)
SegmentEdges == addEdgesOp(<<>>, << <<0, 1>> >>)

\* The group centre lies on the grid: min + max is even on every axis.
CentreOnGrid ==
    \A a \in 1..3 :
        LET vals == UNION {{nodes[wireframes[n]][i][a] : i \in 1..Len(nodes[wireframes[n]])}
                            : n \in DOMAIN wireframes}
        IN  (SetMin(vals) + SetMax(vals)) % 2 = 0

GroupInit ==
    /\ nodes = [w \in Obj |-> IF w = "w1" THEN TriangleNodes ELSE SegmentNodes]
    /\ edges = [w \in Obj |-> IF w = "w1" THEN TriangleFaces.edges ELSE SegmentEdges]
    /\ faces = [w \in Obj |-> IF w = "w1" THEN TriangleFaces.faces ELSE <<>>]
    /\ wireframes = <<>>
    /\ call = NoCall
    /\ steps = 0
    /\ history = <<>>

CanGroupStep == steps < MaxGroupSteps

GTransform ==
    \E w \in {"w1"} :
        CanGroupStep /\ transform(w, Shear) /\ Step("transform", w, Shear)

GTranslate ==
    \E w \in {"w2"}, d \in GVectors :
        CanGroupStep /\ translate(w, d[1], d[2], d[3]) /\ Step("translate", w, d)

GScale ==
    \E w \in {"w1"}, sc \in GScales :
        CanGroupStep /\ scale(w, sc[1], sc[2][1], sc[2][2], sc[2][3]) /\ Step("scale", w, sc)

GRotateX ==
    \E w \in {"w1"} :
        CanGroupStep /\ rotateX(w, GPivot[1], GPivot[2], 1) /\ Step("rotateX", w, <<GPivot, 1>>)

GRotateY ==
    \E w \in {"w2"} :
        CanGroupStep /\ rotateY(w, GPivot[1], GPivot[2], 1) /\ Step("rotateY", w, <<GPivot, 1>>)

GRotateZ ==
    \E w \in {"w1"} :
        CanGroupStep /\ rotateZ(w, GPivot[1], GPivot[2], 1) /\ Step("rotateZ", w, <<GPivot, 1>>)

GAddWireframe ==
    \E name \in Names, w \in Obj :
        /\ CanGroupStep
        /\ addWireframe(name, w)
        /\ call' = [op |-> "addWireframe", obj |-> w, arg |-> name]
        /\ UNCHANGED <<steps, history>>

GGroupTranslate ==
    \E d \in GVectors :
        CanGroupStep /\ groupTranslate(d[1], d[2], d[3]) /\ Step("groupTranslate", "w1", d)

GGroupScale ==
    \E sc \in GScales :
        CanGroupStep /\ groupScale(sc[1], sc[2][1], sc[2][2], sc[2][3])
            /\ Step("groupScale", "w1", sc)

GGroupRotateX ==
    \E r \in GRotations :
        /\ CanGroupStep
        /\ r[2] = None => CentreDefined /\ CentreOnGrid
        /\ groupRotateX(r[1], r[2])
        /\ Step("groupRotateX", "w1", r)

GGroupRotateY ==
    \E r \in GRotations :
        /\ CanGroupStep
        /\ r[2] = None => CentreDefined /\ CentreOnGrid
        /\ groupRotateY(r[1], r[2])
        /\ Step("groupRotateY", "w1", r)

GGroupRotateZ ==
    \E r \in GRotations :
        /\ CanGroupStep
        /\ r[2] = None => CentreDefined /\ CentreOnGrid
        /\ groupRotateZ(r[1], r[2])
        /\ Step("groupRotateZ", "w1", r)

GroupNext ==
    \/ GTransform \/ GTranslate \/ GScale
    \/ GRotateX \/ GRotateY \/ GRotateZ
    \/ GAddWireframe \/ GGroupTranslate \/ GGroupScale
    \/ GGroupRotateX \/ GGroupRotateY \/ GGroupRotateZ

SpecGroup == GroupInit /\ [][GroupNext]_vars

---------------------------------------------------------------------------
(* SpecScale: Wireframe.scale as a function of one node, the factor and *)
(* the pivot                                                            *)

MaxP == 1
MaxS == 2

Box == (-MaxP)..MaxP
Points == {<<x, y, z>> : x \in Box, y \in Box, z \in Box}

ScaleInit ==
    /\ \E p \in Points :
        nodes = [w \in Obj |-> IF w = "w1" THEN addNodesOp(EmptyNodes, <<p>>) ELSE EmptyNodes]
    /\ edges = [w \in Obj |-> <<>>]
    /\ faces = [w \in Obj |-> <<>>]
    /\ wireframes = <<>>
    /\ call = NoCall
    /\ steps = 0
    /\ history = <<>>

ScaleNext ==
    \E s \in (-MaxS)..MaxS, c \in Points :
        /\ steps = 0
        /\ scale("w1", s, c[1], c[2], c[3])
        /\ Record("scale", "w1", <<s, c>>)
        /\ UNCHANGED history

SpecScale == ScaleInit /\ [][ScaleNext]_vars

---------------------------------------------------------------------------
(* SpecTranslate: a WireframeGroup under addWireframe and translate *)

MaxTranslates == 3

\* observer: each translate call with the dict it was issued on
Logged(d) == history' = Append(history, [d |-> d, wireframes |-> wireframes])

XAddWireframe ==
    \E name \in Names, w \in Obj :
        /\ addWireframe(name, w)
        /\ call' = [op |-> "addWireframe", obj |-> w, arg |-> name]
        /\ UNCHANGED <<steps, history>>

XGroupTranslate ==
    \E d \in GVectors :
        /\ Len(history) < MaxTranslates
        /\ groupTranslate(d[1], d[2], d[3])
        /\ Record("groupTranslate", "w1", d)
        /\ Logged(d)

TranslateNext == XAddWireframe \/ XGroupTranslate

SpecTranslate == GroupInit /\ [][TranslateNext]_vars

---------------------------------------------------------------------------
(* Claims *)

Reversed(e) == <<e[2], e[1]>>

\* C1 (as claimed; the code breaks it): the edge list of a wireframe never
\* holds two entries that are equal as unordered pairs.
C1_NoDuplicateEdge ==
    \A w \in Obj : \A a \in 1..Len(edges[w]) : \A b \in 1..Len(edges[w]) :
        a # b => edges[w][a] # edges[w][b] /\ edges[w][a] # Reversed(edges[w][b])

\* A loop holds an index >= n.
HasIndexFrom(node_list, n) == \E k \in 1..Len(node_list) : node_list[k] >= n

\* The pairs of consecutive loop entries, the wrap-around pair included.
BoundaryPairs(node_list) ==
    {<<node_list[k], node_list[(k % Len(node_list)) + 1]>> : k \in 1..Len(node_list)}

\* C2: addFaces is all-or-nothing per loop.  In every addFaces call, a loop
\* holding an index >= the node count is not appended and adds no edge, the
\* remaining loops are appended in call order with all their boundary edges
\* present afterwards, and a call whose loops all hold such an index leaves
\* nodes, edges and faces as they were.
C2_AddFacesAllOrNothing ==
    [][call'.op = "addFaces" =>
        LET w == call'.obj
            face_list == call'.arg
            n == Len(nodes[w])
            kept == SelectSeq(face_list, LAMBDA l : ~HasIndexFrom(l, n))
            added == Range(edges'[w]) \ Range(edges[w])
        IN  /\ nodes' = nodes
            /\ faces'[w] = faces[w] \o kept
            /\ SubSeq(edges'[w], 1, Len(edges[w])) = edges[w]
            /\ added \subseteq UNION {BoundaryPairs(kept[i]) : i \in 1..Len(kept)}
            /\ \A i \in 1..Len(kept) : BoundaryPairs(kept[i]) \subseteq Range(edges'[w])
            /\ kept = <<>> => edges' = edges /\ faces' = faces
    ]_vars

\* C2 witness: an addFaces call of two loops, the first with an index >= the
\* node count, the second without, has stored exactly the second.
C2_Witness ==
    /\ call.op = "addFaces"
    /\ Len(call.arg) = 2
    /\ HasIndexFrom(call.arg[1], Len(nodes["w1"]))
    /\ ~HasIndexFrom(call.arg[2], Len(nodes["w1"]))
    /\ faces["w1"] = <<call.arg[2]>>
    /\ Len(edges["w1"]) = 3

\* C7 (as claimed; the code breaks it): addEdges([(i,j)]) with (i,j) or (j,i)
\* already in the edge list leaves the edge list unchanged.
C7_AddEdgesIdempotent ==
    [][(/\ call'.op = "addEdges"
        /\ Len(call'.arg) = 1
        /\ \/ call'.arg[1] \in Range(edges[call'.obj])
           \/ Reversed(call'.arg[1]) \in Range(edges[call'.obj]))
       => edges' = edges
    ]_vars

\* C10 (as claimed; the code breaks it): every index stored in a face, and
\* every index of an edge derived from a stored face, is a node index i with
\* 0 <= i < node count.
C10_FaceIndicesValid ==
    \A w \in Obj : \A f \in 1..Len(faces[w]) :
        /\ \A k \in 1..Len(faces[w][f]) :
            0 <= faces[w][f][k] /\ faces[w][f][k] < Len(nodes[w])
        /\ \A e \in BoundaryPairs(faces[w][f]) \cap Range(edges[w]) :
            0 <= e[1] /\ e[1] < Len(nodes[w]) /\ 0 <= e[2] /\ e[2] < Len(nodes[w])

\* The registered names, in a fixed order.
MemberNames == IF "a" \in DOMAIN wireframes
               THEN (IF "b" \in DOMAIN wireframes THEN <<"a", "b">> ELSE <<"a">>)
               ELSE (IF "b" \in DOMAIN wireframes THEN <<"b">> ELSE <<>>)

RECURSIVE UnionNodes(_)
UnionNodes(names) ==
    IF names = <<>> THEN EmptyNodes
    ELSE nodes[wireframes[Head(names)]] \o UnionNodes(Tail(names))

DistinctMembers ==
    \A m \in DOMAIN wireframes : \A n \in DOMAIN wireframes :
        m # n => wireframes[m] # wireframes[n]

\* One Wireframe holding all members' nodes, rotated about its own findCentre.
RotatedUnion(op, k) ==
    LET u == UnionNodes(MemberNames)
        c == findCentre(u)
    IN  CASE op = "groupRotateX" -> dot(u, rotateXMatrix(c[2], c[3], k))
          [] op = "groupRotateY" -> dot(u, rotateYMatrix(c[1], c[3], k))
          [] op = "groupRotateZ" -> dot(u, rotateZMatrix(c[1], c[2], k))

\* C3: group rotation is rigid.  When rotateX/Y/Z is called with centre
\* omitted on a group whose names map to distinct non-empty wireframes, every
\* member ends with the coordinates it gets when all members' nodes are put in
\* one Wireframe and that wireframe is rotated about its own findCentre; a
\* wireframe outside the group is not moved.
C3_GroupRotationRigid ==
    [][(/\ call'.op \in {"groupRotateX", "groupRotateY", "groupRotateZ"}
        /\ call'.arg[2] = None
        /\ DistinctMembers)
       => LET r == RotatedUnion(call'.op, call'.arg[1])
              first == wireframes[MemberNames[1]]
          IN  /\ nodes'[first] = SubSeq(r, 1, Len(nodes[first]))
              /\ Len(MemberNames) = 2 =>
                    nodes'[wireframes[MemberNames[2]]] = SubSeq(r, Len(nodes[first]) + 1, Len(r))
              /\ \A w \in Obj : (\A n \in DOMAIN wireframes : wireframes[n] # w)
                                    => nodes'[w] = nodes[w]
    ]_vars

\* C3 witness: a quarter turn about x, centre omitted, of a group of two
\* distinct wireframes has moved both of them.
C3_Witness ==
    /\ call.op = "groupRotateX"
    /\ call.arg = <<1, None>>
    /\ DOMAIN wireframes = Names
    /\ DistinctMembers
    /\ nodes["w1"] # TriangleNodes
    /\ nodes["w2"] # SegmentNodes

\* The image of a row under k applications of the matrix M.
RECURSIVE Image(_, _, _)
Image(row, M, k) == IF k = 0 THEN row ELSE Image(RowDot(row, M), M, k - 1)

NamesOf(w) == {n \in DOMAIN wireframes : wireframes[n] = w}

\* The matrix a call multiplies node rows by.
CallMatrix(c) ==
    CASE c.op = "transform" -> c.arg
      [] c.op \in {"translate", "groupTranslate"} ->
            translateMatrix(c.arg[1], c.arg[2], c.arg[3])
      [] c.op \in {"scale", "groupScale"} ->
            scaleMatrix(c.arg[1], c.arg[2][1], c.arg[2][2], c.arg[2][3])
      [] c.op = "rotateX" -> rotateXMatrix(c.arg[1][1], c.arg[1][2], c.arg[2])
      [] c.op = "rotateY" -> rotateYMatrix(c.arg[1][1], c.arg[1][2], c.arg[2])
      [] c.op = "rotateZ" -> rotateZMatrix(c.arg[1][1], c.arg[1][2], c.arg[2])
      [] c.op = "groupRotateX" ->
            rotateXMatrix(pivotX(c.arg[2])[1], pivotX(c.arg[2])[2], c.arg[1])
      [] c.op = "groupRotateY" ->
            rotateYMatrix(pivotY(c.arg[2])[1], pivotY(c.arg[2])[2], c.arg[1])
      [] c.op = "groupRotateZ" ->
            rotateZMatrix(pivotZ(c.arg[2])[1], pivotZ(c.arg[2])[2], c.arg[1])

SingleOps == {"transform", "translate", "scale", "rotateX", "rotateY", "rotateZ"}
GroupOps == {"groupTranslate", "groupScale", "groupRotateX", "groupRotateY", "groupRotateZ"}

\* How often a call multiplies the rows of wireframe w.
Times(c, w) ==
    IF c.op \in SingleOps THEN (IF c.obj = w THEN 1 ELSE 0)
    ELSE Cardinality(NamesOf(w))

\* C4: a transform call, on a Wireframe or on a WireframeGroup, changes node
\* coordinates only: every wireframe keeps its node count, node i stays node i
\* (its row is the image of the old row i), and the edge and face lists are
\* what they were.
C4_TransformFrame ==
    [][call'.op \in SingleOps \cup GroupOps =>
        /\ edges' = edges
        /\ faces' = faces
        /\ wireframes' = wireframes
        /\ \A M \in {CallMatrix(call')} : \A w \in Obj :
            /\ Len(nodes'[w]) = Len(nodes[w])
            /\ \A i \in 1..Len(nodes[w]) :
                nodes'[w][i] = Image(nodes[w][i], M, Times(call', w))
    ]_vars

\* C4 witness: a group scale has moved the triangle, whose edges and faces
\* are still those it was built with.
C4_Witness ==
    /\ call.op = "groupScale"
    /\ \E n \in DOMAIN wireframes : wireframes[n] = "w1"
    /\ nodes["w1"] # TriangleNodes
    /\ Len(nodes["w1"]) = 3
    /\ edges["w1"] = <<<<2, 0>>, <<0, 1>>, <<1, 2>>>>
    /\ faces["w1"] = <<<<0, 1, 2>>>>

\* All coordinates of the members' nodes on axis a.
MemberCoords(a) ==
    UNION {{nodes[wireframes[n]][i][a] : i \in 1..Len(nodes[wireframes[n]])}
            : n \in DOMAIN wireframes}

\* C5: for a group of one or more non-empty wireframes, WireframeGroup.findCentre
\* is, on each axis, the midpoint of the least and the greatest coordinate over
\* all members' nodes, which is Wireframe.findCentre of one wireframe holding
\* all those nodes; the homogeneous column plays no part.
C5_GroupCentre ==
    CentreDefined =>
        /\ groupFindCentre = findCentre(UnionNodes(MemberNames))
        /\ \A a \in 1..3 :
            (SetMin(MemberCoords(a)) + SetMax(MemberCoords(a))) % 2 = 0
                => 2 * groupFindCentre[a] = SetMin(MemberCoords(a)) + SetMax(MemberCoords(a))

\* C5 witness: members spanning (0,0,0)-(1,1,1) and (2,2,2)-(3,3,3), stored in
\* half units, have the centre (1.5,1.5,1.5), stored as (3,3,3).
C5_Witness ==
    /\ DOMAIN wireframes = Names
    /\ DistinctMembers
    /\ nodes["w1"] = TriangleNodes
    /\ nodes["w2"] = SegmentNodes
    /\ groupFindCentre = <<3, 3, 3>>

\* C6: Wireframe.scale(s, cx, cy, cz) sends every node p to c + s*(p - c) on
\* each axis, which is what translate(-c), scale(s) about the origin and
\* translate(+c) give in turn; a node at the pivot stays where it is.
C6_ScaleAboutPivot ==
    [][call'.op = "scale" =>
        LET w == call'.obj
            s == call'.arg[1]
            c == call'.arg[2]
            back == dot(nodes[w], translateMatrix(-c[1], -c[2], -c[3]))
            grown == dot(back, << <<s, 0, 0, 0>>, <<0, s, 0, 0>>, <<0, 0, s, 0>>, <<0, 0, 0, 1>> >>)
        IN  /\ \A i \in 1..Len(nodes[w]) :
                /\ \A a \in 1..3 : nodes'[w][i][a] = c[a] + s * (nodes[w][i][a] - c[a])
                /\ (\A a \in 1..3 : nodes[w][i][a] = c[a]) => nodes'[w][i] = nodes[w][i]
            /\ nodes'[w] = dot(grown, translateMatrix(c[1], c[2], c[3]))
    ]_vars

\* C6 witness: scale(2) about (0,0,0) has sent the node (1,1,1) to (2,2,2).
C6_Witness ==
    /\ call.op = "scale"
    /\ call.arg = <<2, <<0, 0, 0>> >>
    /\ nodes["w1"] = << <<2, 2, 2, 1>> >>

\* The sum, over the logged translate calls, of weight * (component a of the
\* call's vector), where the weight of a call for wireframe w is the number of
\* names that mapped to w (perName), or 1 if any did and 0 if none (otherwise).
RECURSIVE Displacement(_, _, _, _)
Displacement(log, w, a, perName) ==
    IF log = <<>> THEN 0
    ELSE LET e == Head(log)
             k == Cardinality({n \in DOMAIN e.wireframes : e.wireframes[n] = w})
             weight == IF perName THEN k ELSE (IF k > 0 THEN 1 ELSE 0)
         IN  weight * e.d[a] + Displacement(Tail(log), w, a, perName)

Original(w) == IF w = "w1" THEN TriangleNodes ELSE SegmentNodes

\* C8 (as claimed; the code breaks it): every node is displaced from its
\* original coordinates by the sum of the vectors of the translate calls made
\* while its wireframe was registered under at least one name, each call
\* counted once however many names map to the wireframe.
C8_TranslateOncePerWireframe ==
    \A w \in Obj : \A i \in 1..Len(nodes[w]) : \A a \in 1..3 :
        nodes[w][i][a] = Original(w)[i][a] + Displacement(history, w, a, FALSE)

\* C8 (amended): every node is displaced from its original coordinates by the
\* sum, over the translate calls, of the call's vector times the number of
\* names that mapped to its wireframe when the call was made; registering or
\* re-registering a name moves nothing, and a wireframe no name maps to is not
\* moved.
C8_TranslateOncePerName ==
    /\ \A w \in Obj :
        /\ Len(nodes[w]) = Len(Original(w))
        /\ \A i \in 1..Len(nodes[w]) : \A a \in 1..3 :
            nodes[w][i][a] = Original(w)[i][a] + Displacement(history, w, a, TRUE)

\* C8 witness: w1 was translated while registered under both names, then both
\* names were re-registered to w2 and the group was translated again.
C8_Witness ==
    /\ Len(history) = 2
    /\ history[1].wireframes = [n \in Names |-> "w1"]
    /\ history[2].wireframes = [n \in Names |-> "w2"]
    /\ nodes["w1"] # TriangleNodes
    /\ nodes["w2"] # SegmentNodes

\* C9: the homogeneous component of every node is exactly 1.
C9_HomogeneousOne ==
    \A w \in Obj : \A i \in 1..Len(nodes[w]) : nodes[w][i][4] = 1

\* C9 witness: after addNodes and a full budget of transform calls, the last
\* a rotation, the nodes have moved.
C9_Witness ==
    /\ steps = MaxSteps
    /\ call.op = "rotateZ"
    /\ Len(nodes["w1"]) = 4
    /\ SubSeq(nodes["w1"], 1, 3) # TriangleNodes

====
